---- MODULE Spec2Model ----
(***************************************************************************)
(* Model of the question-answering endpoint of mini-motorDeIA               *)
(* (src/app/api/answer/route.ts, the handler at lines 200-398): the         *)
(* module-level cache cachedData, loadAndChunkFiles, generateEmbeddings,    *)
(* getEmbeddings and POST.                                                  *)
(*                                                                         *)
(* Strings are sequences of one-character strings.  Arrays of chunks are   *)
(* objects on a heap, named by their allocation number, because the code   *)
(* shares them by reference (cachedData.chunks, the chunks of a request).  *)
(* A request runs atomically from one I/O await to the next: req.json(),   *)
(* client.embeddings.create and client.chat.completions.create are the     *)
(* suspension points; the file reads are synchronous.                      *)
(***************************************************************************)
EXTENDS Integers, Sequences, FiniteSets, TLC

(***************************************************************************)
(* Bounds of the model.                                                    *)
(***************************************************************************)
NumRequests == 2   \* requests the server receives in one behaviour
MaxTicks == 1      \* times the clock is advanced in one behaviour
NumRandom == 2     \* distinct outcomes of one Array(768)...Math.random() draw
ServiceDim == 2    \* length of the vectors the embedding service returns
MaxLines == 3      \* lines of a document given to the chunker alone
MaxSubmits == 3    \* questions the page sends in one behaviour

(***************************************************************************)
(* Program constants.                                                      *)
(***************************************************************************)
FreshnessWindow == 3600000   \* route.ts:294
MaxChunkSize == 800          \* route.ts:246
FallbackDim == 768           \* route.ts:285, 336
TopK == 3                    \* route.ts:346
PreviewLength == 200         \* route.ts:381

Requests == 1..NumRequests

(***************************************************************************)
(* Strings.                                                                *)
(***************************************************************************)
NL == "\n"
Rep(c, n) == [i \in 1..n |-> c]
Whitespace == {" ", "\n", "\t", "\r"}

\* String.prototype.trim: what lies between the first and the last
\* character that is no white space
trim(s) ==
    IF \A i \in 1..Len(s) : s[i] \in Whitespace THEN <<>>
    ELSE SubSeq(s,
                CHOOSE i \in 1..Len(s) :
                    s[i] \notin Whitespace /\ \A j \in 1..(i - 1) : s[j] \in Whitespace,
                CHOOSE i \in 1..Len(s) :
                    s[i] \notin Whitespace /\ \A j \in (i + 1)..Len(s) : s[j] \in Whitespace)

\* String.prototype.split('\n'): the pieces between the newlines, always at
\* least one piece
split(s) ==
    LET breaks == {i \in 1..Len(s) : s[i] = NL}
        \* the position of the k-th newline; 0 and Len(s) + 1 at the ends
        Break(k) == IF k = 0 THEN 0
                    ELSE IF k > Cardinality(breaks) THEN Len(s) + 1
                    ELSE CHOOSE i \in breaks :
                            Cardinality({j \in breaks : j < i}) = k - 1
    IN  [k \in 1..(Cardinality(breaks) + 1) |->
            SubSeq(s, Break(k - 1) + 1, Break(k) - 1)]

\* String.prototype.endsWith
endsWith(s, suffix) ==
    /\ Len(s) >= Len(suffix)
    /\ SubSeq(s, Len(s) - Len(suffix) + 1, Len(s)) = suffix

\* String.prototype.substring(0, n)
substring0(s, n) == SubSeq(s, 1, IF Len(s) < n THEN Len(s) ELSE n)

\* Array.prototype.join
RECURSIVE join(_, _)
join(parts, sep) ==
    IF parts = <<>> THEN <<>>
    ELSE IF Len(parts) = 1 THEN parts[1]
    ELSE parts[1] \o sep \o join(Tail(parts), sep)

(***************************************************************************)
(* loadAndChunkFiles, route.ts:234-268.                                    *)
(***************************************************************************)
\* the loop body with the line that did not fit left out of the next chunk
ChunkLineDropping(st, line, file) ==
    IF Len(st.currentChunk) + Len(line) > MaxChunkSize
    THEN [chunks |-> IF trim(st.currentChunk) # <<>>
                     THEN Append(st.chunks,
                                 [text |-> trim(st.currentChunk), source |-> file])
                     ELSE st.chunks,
          currentChunk |-> <<>>]
    ELSE [chunks |-> st.chunks,
          currentChunk |-> st.currentChunk \o <<NL>> \o line]

\* the body of the loop over the lines of one file (lines 245-257):
\* st = [chunks, currentChunk]
ChunkLine(st, line, file) ==
    IF Len(st.currentChunk) + Len(line) > MaxChunkSize
    THEN [chunks |-> IF trim(st.currentChunk) # <<>>
                     THEN Append(st.chunks,
                                 [text |-> trim(st.currentChunk), source |-> file])
                     ELSE st.chunks,
          currentChunk |-> line]
    ELSE [chunks |-> st.chunks,
          currentChunk |-> st.currentChunk \o <<NL>> \o line]

RECURSIVE ChunkLines(_, _, _)
ChunkLines(st, lines, file) ==
    IF lines = <<>> THEN st
    ELSE ChunkLines(ChunkLine(st, Head(lines), file), Tail(lines), file)

\* one iteration of the loop over the files (lines 241-264): the chunks of
\* the file are pushed onto the chunks collected so far
ChunkFile(chunks, file, content) ==
    LET st == ChunkLines([chunks |-> chunks, currentChunk |-> <<>>],
                         split(content), file)
    IN  IF trim(st.currentChunk) # <<>>
        THEN Append(st.chunks, [text |-> trim(st.currentChunk), source |-> file])
        ELSE st.chunks

\* line 236: the directory entries that end in .txt or .md
TextFiles(entries) ==
    SelectSeq(entries, LAMBDA f : endsWith(f.name, <<".", "t", "x", "t">>)
                                  \/ endsWith(f.name, <<".", "m", "d">>))

\* the chunks array after the first n of the files were read and chunked
RECURSIVE ChunkFiles(_, _)
ChunkFiles(files, n) ==
    IF n = 0 THEN <<>>
    ELSE ChunkFile(ChunkFiles(files, n - 1), files[n].name, files[n].content)

loadAndChunkFiles(entries) ==
    LET files == TextFiles(entries) IN ChunkFiles(files, Len(files))

(***************************************************************************)
(* Embeddings.  An embedding array is written once and never changed, so   *)
(* the state holds its identity (where it came from) and Elements gives    *)
(* its numbers.  Numbers are integers: a drawn Math.random() value is in   *)
(* units of one half (0 or 1/2), which leaves every cosine unchanged.      *)
(***************************************************************************)
\* client.embeddings.create(...).data[0].embedding when the call succeeds,
\* lines 276-281 and 329-333: the service maps equal texts to equal vectors
ServiceEmbedding(text) == [fallback |-> FALSE, key |-> Len(text) % 4]

\* Array(768).fill(0).map(() => Math.random()), lines 285 and 336: one of
\* the possible draws
RandomVector(draw) == [fallback |-> TRUE, key |-> draw]

RandomDraws == 1..NumRandom

\* the numbers of an embedding array; the service's vector of key 3 is the
\* zero vector
Elements(v) ==
    IF v.fallback
    THEN [i \in 1..FallbackDim |-> IF i % (v.key + 1) = 0 THEN 1 ELSE 0]
    ELSE [i \in 1..ServiceDim |-> IF v.key = 3 THEN 0 ELSE ((v.key + i) % 3) - 1]

Vectors ==
    {RandomVector(d) : d \in RandomDraws} \cup {[fallback |-> FALSE, key |-> k] : k \in 0..3}

(***************************************************************************)
(* cosineSimilarity, route.ts:226-231.  A score is NaN or the quotient     *)
(* dot / sqrt(sqA * sqB), kept as its three integer parts.                 *)
(***************************************************************************)
\* f[lo] + ... + f[hi], the sum reduce accumulates, by halves
RECURSIVE SumRange(_, _, _)
SumRange(f, lo, hi) ==
    IF lo > hi THEN 0
    ELSE IF lo = hi THEN f[lo]
    ELSE LET mid == (lo + hi) \div 2
         IN  SumRange(f, lo, mid) + SumRange(f, mid + 1, hi)

SumTo(f, n) == SumRange(f, 1, n)

\* line 227: b[i] is undefined beyond the end of b and makes the sum NaN
DotIsNaN(a, b) == Len(a) > Len(b)
dotProduct(a, b) ==
    LET m == IF Len(a) < Len(b) THEN Len(a) ELSE Len(b)
    IN  SumTo([i \in 1..m |-> a[i] * b[i]], m)
SquaredMagnitude(a) == SumTo([i \in 1..Len(a) |-> a[i] * a[i]], Len(a))

cosineSimilarity(a, b) ==
    LET sqA == SquaredMagnitude(a)
        sqB == SquaredMagnitude(b)
    IN  [nan |-> DotIsNaN(a, b) \/ sqA = 0 \/ sqB = 0,   \* NaN or 0 / 0
         dot |-> dotProduct(a, b), sqA |-> sqA, sqB |-> sqB]

\* x < y for two scores against the same query (equal sqA), neither NaN
SignedSquare(d) == IF d < 0 THEN -(d * d) ELSE d * d
ScoreLess(x, y) == SignedSquare(x.dot) * y.sqB < SignedSquare(y.dot) * x.sqB

(***************************************************************************)
(* Ranking, route.ts:340-346.                                              *)
(***************************************************************************)
\* the comparator (a, b) => b.score - a.score of line 345, as the sign
\* Array.prototype.sort uses: a NaN difference counts as 0
Compare(a, b) ==
    IF a.score.nan \/ b.score.nan THEN 0
    ELSE IF ScoreLess(a.score, b.score) THEN 1
    ELSE IF ScoreLess(b.score, a.score) THEN -1
    ELSE 0

\* ECMAScript's "consistent comparator": the order sort produces is
\* specified only for these
ConsistentComparator(s) ==
    \A i, j, k \in 1..Len(s) :
        /\ (Compare(s[i], s[j]) = 0 /\ Compare(s[j], s[k]) = 0)
              => Compare(s[i], s[k]) = 0
        /\ (Compare(s[i], s[j]) < 0 /\ Compare(s[j], s[k]) < 0)
              => Compare(s[i], s[k]) < 0

\* x goes before the first element it must precede (stable)
RECURSIVE InsertSorted(_, _)
InsertSorted(sorted, x) ==
    IF sorted = <<>> THEN <<x>>
    ELSE IF Compare(x, Head(sorted)) < 0 THEN <<x>> \o sorted
    ELSE <<Head(sorted)>> \o InsertSorted(Tail(sorted), x)

RECURSIVE StableSort(_, _)
StableSort(s, n) ==
    IF n = 0 THEN <<>> ELSE InsertSorted(StableSort(s, n - 1), s[n])

Perms(n) ==
    {p \in [1..n -> 1..n] : \A i, j \in 1..n : i # j => p[i] # p[j]}

\* Array.prototype.sort: stable for a consistent comparator, otherwise the
\* order is implementation-defined
SortOutcomes(s) ==
    IF ConsistentComparator(s) THEN {StableSort(s, Len(s))}
    ELSE {[i \in 1..Len(s) |-> s[p[i]]] : p \in Perms(Len(s))}

\* lines 340-344: every chunk with its score against the question
\* cosineSimilarity of every two embedding arrays, computed once
Similarity ==
    [a \in Vectors, b \in Vectors |-> cosineSimilarity(Elements(a), Elements(b))]

WithScore(chunk, questionEmbedding) ==
    [text |-> chunk.text, source |-> chunk.source, embedding |-> chunk.embedding,
     score |-> Similarity[questionEmbedding, chunk.embedding]]

RECURSIVE ScoredTo(_, _, _)
ScoredTo(chunkArray, questionEmbedding, n) ==
    IF n = 0 THEN <<>>
    ELSE Append(ScoredTo(chunkArray, questionEmbedding, n - 1),
                WithScore(chunkArray[n], questionEmbedding))

Scored(chunkArray, questionEmbedding) ==
    ScoredTo(chunkArray, questionEmbedding, Len(chunkArray))

\* line 346: slice(0, 3)
slice(s, k) == SubSeq(s, 1, IF Len(s) < k THEN Len(s) ELSE k)

(***************************************************************************)
(* Context and citations, route.ts:348-351 and 378-389.                    *)
(***************************************************************************)
\* the context with a label naming each chunk's source and a rule between
\* the chunks
Digits == <<"1", "2", "3", "4", "5", "6", "7", "8", "9">>
LabelledContext(scoredChunks) ==
    join([i \in 1..Len(scoredChunks) |->
            <<"[", "F", "u", "e", "n", "t", "e", " ", Digits[i], ":", " ">>
                \o scoredChunks[i].source \o <<"]", NL>> \o scoredChunks[i].text],
         <<NL, NL, "-", "-", "-", NL, NL>>)

\* lines 349-351
BuildContext(scoredChunks) ==
    join([i \in 1..Len(scoredChunks) |-> scoredChunks[i].text], <<NL, NL>>)

Ellipsis == <<".", ".", ".">>

CitationOf(chunk) ==
    [source |-> chunk.source,
     text |-> substring0(chunk.text, PreviewLength) \o Ellipsis,
     relevance |-> chunk.score]

Citations(scoredChunks) ==
    [i \in 1..Len(scoredChunks) |-> CitationOf(scoredChunks[i])]

\* [...new Set(scoredChunks.map(c => c.source))]: first occurrences, in order
RECURSIVE Distinct(_)
Distinct(s) ==
    IF s = <<>> THEN <<>>
    ELSE LET rest == Distinct(SubSeq(s, 1, Len(s) - 1))
             x == s[Len(s)]
         IN  IF \E i \in 1..Len(rest) : rest[i] = x THEN rest ELSE Append(rest, x)

\* the sources with their repetitions
AllSources(scoredChunks) ==
    [i \in 1..Len(scoredChunks) |-> scoredChunks[i].source]

\* line 388
Sources(scoredChunks) ==
    Distinct([i \in 1..Len(scoredChunks) |-> scoredChunks[i].source])

(***************************************************************************)
(* The environment: the data directory and the request bodies.             *)
(***************************************************************************)
FileA == <<"a", ".", "t", "x", "t">>
FileB == <<"b", ".", "m", "d">>
FileC == <<"c", ".", "j", "s">>

\* the data directories the model runs over; one is chosen at the start and
\* stays unchanged, readdirSync lists it in this order
Corpora ==
    { <<>>,
      << [name |-> FileA, content |-> <<"h", "i", NL>>],
         [name |-> FileC, content |-> <<"{", "}">>],
         [name |-> FileB, content |-> Rep("y", PreviewLength + 1) \o <<NL, NL>> \o <<"z">>] >> }

\* the question of a parsed body: absent, a string or a number
Undefined == [type |-> "undefined", str |-> <<>>, num |-> 0]
StringValue(str) == [type |-> "string", str |-> str, num |-> 0]
NumberValue(n) == [type |-> "number", str |-> <<>>, num |-> n]
Questions ==
    {Undefined, StringValue(<<>>), NumberValue(7), StringValue(<<"q", "?">>)}

\* !question, line 316
Falsy(q) ==
    \/ q.type = "undefined"
    \/ q.type = "string" /\ q.str = <<>>
    \/ q.type = "number" /\ q.num = 0

(***************************************************************************)
(* State.                                                                  *)
(***************************************************************************)
VARIABLES
    dataDir,            \* the entries of the data directory
    now,                \* Date.now()
    ticks,              \* how often the clock was advanced
    cachedData,         \* line 223: null, or {chunks: a reference, timestamp}
    heap,               \* the chunk arrays allocated so far
    pc,                 \* where each request is suspended
    question,           \* POST's question
    chunks,             \* the reference a request holds to its chunk array
    index,              \* generateEmbeddings' i, from 1
    questionEmbedding,  \* POST's questionEmbedding
    scoredChunks,       \* POST's scoredChunks
    context,            \* POST's context
    response,           \* the response a request ended with
    \* what a run did, recorded for the properties
    io,                 \* the calls a request made outside, with their outcome
    cacheTest,          \* what getEmbeddings' test of line 294 saw and chose
    abandoned,          \* arrays of a rebuild that threw
    loaded,             \* for each array, the chunks loadAndChunkFiles put in it
    stored,             \* every snapshot ever assigned to cachedData
    \* the page, src/app/page.tsx
    home,               \* the state of Home: question, response, loading, error
    fetchCalls          \* the fetch calls handleSubmit made, with their outcome

vars == <<dataDir, now, ticks, cachedData, heap, pc, question, chunks, index,
          questionEmbedding, scoredChunks, context, response, io, cacheTest,
          abandoned, loaded, stored, home, fetchCalls>>

Null == [set |-> FALSE, chunks |-> 0, timestamp |-> 0]
Snapshot(a, t) == [set |-> TRUE, chunks |-> a, timestamp |-> t]
NoResponse == [status |-> 0]
NotTested == [tested |-> FALSE, set |-> FALSE, age |-> 0, array |-> 0, hit |-> FALSE]
NoVector == [fallback |-> FALSE, key |-> 0]   \* questionEmbedding before line 333

\* page.tsx:18-21: the state of Home when it is first rendered; response
\* null is the record of status 0
NoData == [status |-> 0]
PageLoaded ==
    /\ home = [question |-> <<>>, response |-> NoData, loading |-> FALSE, error |-> ""]
    /\ fetchCalls = <<>>

\* the module was loaded and no request has arrived
ServerStarted ==
    /\ PageLoaded
    /\ now = 0
    /\ ticks = 0
    /\ cachedData = Null
    /\ heap = <<>>
    /\ pc = [r \in Requests |-> "idle"]
    /\ question = [r \in Requests |-> Undefined]
    /\ chunks = [r \in Requests |-> 0]
    /\ index = [r \in Requests |-> 0]
    /\ questionEmbedding = [r \in Requests |-> NoVector]
    /\ scoredChunks = [r \in Requests |-> <<>>]
    /\ context = [r \in Requests |-> <<>>]
    /\ response = [r \in Requests |-> NoResponse]
    /\ io = [r \in Requests |-> <<>>]
    /\ cacheTest = [r \in Requests |-> NotTested]
    /\ abandoned = {}
    /\ loaded = <<>>
    /\ stored = {}

Init == dataDir \in Corpora /\ ServerStarted

\* the record of one call: req.json ("json"), readdirSync ("readdir"),
\* readFileSync of the arg-th file ("readFile"), embeddings.create for the
\* arg-th chunk or, with arg 0, for the question ("embed"), and
\* chat.completions.create ("chat")
Event(api, arg, ok) == [api |-> api, arg |-> arg, ok |-> ok]
Log(r, events) == io' = [io EXCEPT ![r] = @ \o events]

\* readdirSync and the reads of the first k files, the last of them failing
\* unless ok
ReadEvents(k, ok) ==
    <<Event("readdir", 0, TRUE)>>
        \o [j \in 1..k |-> Event("readFile", j, j < k \/ ok)]

(***************************************************************************)
(* Responses, route.ts:317-320, 385-389, 391-396.                          *)
(***************************************************************************)
BadRequest == [status |-> 400, error |-> "Se requiere una pregunta valida"]

\* the exception thrown on, out of the handler, with no response made
Uncaught(cause) == [status |-> 0]

\* lines 391-396
ServerError(cause) ==
    [status |-> 500, error |-> "Error procesando la pregunta", details |-> cause]

\* an error answered when nothing was retrieved
SuccessUnlessEmpty(answer, scored) ==
    IF scored = <<>> THEN ServerError("NoData")
    ELSE [status |-> 200, answer |-> answer, citations |-> Citations(scored),
          sources |-> Sources(scored)]

\* lines 385-389
Success(answer, scored) ==
    [status |-> 200, answer |-> answer, citations |-> Citations(scored),
     sources |-> Sources(scored)]

Respond(r, resp) ==
    /\ response' = [response EXCEPT ![r] = resp]
    /\ pc' = [pc EXCEPT ![r] = "done"]

(***************************************************************************)
(* getEmbeddings, route.ts:293-309.                                        *)
(***************************************************************************)
\* the test of line 294 with the window included in the fresh ages
CacheFreshInclusive ==
    cachedData.set /\ now - cachedData.timestamp <= FreshnessWindow

\* the test of line 294
CacheFresh ==
    cachedData.set /\ now - cachedData.timestamp < FreshnessWindow

\* the record of the test: whether a snapshot was there, its age and its
\* array, and the branch taken
TestCache(r) ==
    cacheTest' = [cacheTest EXCEPT ![r] =
                    [tested |-> TRUE, set |-> cachedData.set,
                     age |-> now - cachedData.timestamp,
                     array |-> cachedData.chunks, hit |-> CacheFresh]]

\* the snapshot stored only when none is there yet
StoreIfAbsent(a, contents) ==
    /\ cachedData' = IF cachedData.set THEN cachedData ELSE Snapshot(a, now)
    /\ stored' = stored \cup {[array |-> a, chunks |-> contents, timestamp |-> now]}

\* lines 303-306
StoreSnapshot(a, contents) ==
    /\ cachedData' = Snapshot(a, now)
    /\ stored' = stored \cup {[array |-> a, chunks |-> contents, timestamp |-> now]}

\* line 296: the cached array itself is returned
ReturnCached(r) ==
    /\ TestCache(r)
    /\ Log(r, <<Event("json", 0, TRUE)>>)
    /\ chunks' = [chunks EXCEPT ![r] = cachedData.chunks]
    /\ pc' = [pc EXCEPT ![r] = "questionEmbed"]
    /\ UNCHANGED <<cachedData, heap, index, response, abandoned, loaded, stored>>

\* lines 235-236 throw: readdirSync fails before the chunks array exists;
\* lines 391-396 answer
ReaddirFails(r) ==
    /\ TestCache(r)
    /\ Log(r, <<Event("json", 0, TRUE), Event("readdir", 0, FALSE)>>)
    /\ Respond(r, ServerError("ENOENT"))
    /\ UNCHANGED <<cachedData, heap, chunks, index, abandoned, loaded, stored>>

\* the read of the k-th file caught and the chunks read so far stored
ReadFileStoresPartial(r, k) ==
    LET partial == ChunkFiles(TextFiles(dataDir), k - 1)
    IN  /\ TestCache(r)
        /\ Log(r, <<Event("json", 0, TRUE)>> \o ReadEvents(k, FALSE))
        /\ heap' = Append(heap, partial)
        /\ loaded' = Append(loaded, partial)
        /\ abandoned' = abandoned \cup {Len(heap) + 1}
        /\ StoreSnapshot(Len(heap) + 1, partial)
        /\ Respond(r, ServerError("EACCES"))
        /\ UNCHANGED <<chunks, index>>

\* line 241 throws at the k-th file: the chunks of the files before it are
\* in an array nothing refers to any more; lines 391-396 answer
ReadFileFails(r, k) ==
    LET partial == ChunkFiles(TextFiles(dataDir), k - 1)
    IN  /\ TestCache(r)
        /\ Log(r, <<Event("json", 0, TRUE)>> \o ReadEvents(k, FALSE))
        /\ heap' = Append(heap, partial)
        /\ loaded' = Append(loaded, partial)
        /\ abandoned' = abandoned \cup {Len(heap) + 1}
        /\ Respond(r, ServerError("EACCES"))
        /\ UNCHANGED <<cachedData, chunks, index, stored>>

\* lines 300-301: the files are read and chunked, generateEmbeddings starts
\* and suspends at its first call of the embedder; with no chunk it returns
\* at once and lines 303-308 run
StartRebuild(r) ==
    LET a == Len(heap) + 1
        fromFiles == loadAndChunkFiles(dataDir)
    IN  /\ TestCache(r)
        /\ Log(r, <<Event("json", 0, TRUE)>>
                      \o ReadEvents(Len(TextFiles(dataDir)), TRUE))
        /\ heap' = Append(heap, fromFiles)
        /\ loaded' = Append(loaded, fromFiles)
        /\ chunks' = [chunks EXCEPT ![r] = a]
        /\ IF fromFiles = <<>>
           THEN /\ StoreSnapshot(a, fromFiles)
                /\ pc' = [pc EXCEPT ![r] = "questionEmbed"]
                /\ UNCHANGED index
           ELSE /\ index' = [index EXCEPT ![r] = 1]
                /\ pc' = [pc EXCEPT ![r] = "chunkEmbed"]
                /\ UNCHANGED <<cachedData, stored>>
        /\ UNCHANGED <<response, abandoned>>

GetEmbeddings(r) ==
    IF CacheFresh THEN ReturnCached(r)
    ELSE \/ ReaddirFails(r)
         \/ \E k \in 1..Len(TextFiles(dataDir)) : ReadFileFails(r, k)
         \/ StartRebuild(r)

(***************************************************************************)
(* POST, route.ts:312-398, from one suspension to the next.                *)
(***************************************************************************)
\* requests are numbered in the order their bodies arrive
Arrives(r) == pc[r] = "idle" /\ (IF r = 1 THEN TRUE ELSE pc[r - 1] # "idle")

\* line 314 throws (the body is no JSON, or is null); lines 391-396 answer
PostBadBody(r) ==
    /\ Arrives(r)
    /\ Log(r, <<Event("json", 0, FALSE)>>)
    /\ Respond(r, ServerError("SyntaxError"))
    /\ UNCHANGED <<home, fetchCalls, dataDir, now, ticks, cachedData, heap, question, chunks, index,
                   questionEmbedding, scoredChunks, context, cacheTest,
                   abandoned, loaded, stored>>

\* the condition of line 316 without its typeof test
OnlyFalsy(q) == Falsy(q)

\* the condition of line 316
InvalidQuestion(q) == Falsy(q) \/ q.type # "string"

\* lines 314-321: the question is checked and refused
PostInvalid(r) ==
    /\ Arrives(r)
    /\ \E q \in Questions :
          /\ InvalidQuestion(q)
          /\ question' = [question EXCEPT ![r] = q]
    /\ Log(r, <<Event("json", 0, TRUE)>>)
    /\ Respond(r, BadRequest)
    /\ UNCHANGED <<home, fetchCalls, dataDir, now, ticks, cachedData, heap, chunks, index,
                   questionEmbedding, scoredChunks, context, cacheTest,
                   abandoned, loaded, stored>>

\* lines 314-324: a valid question goes on into getEmbeddings, up to its
\* first suspension
PostValid(r) ==
    /\ Arrives(r)
    /\ \E q \in Questions :
          /\ ~InvalidQuestion(q)
          /\ question' = [question EXCEPT ![r] = q]
    /\ GetEmbeddings(r)
    /\ UNCHANGED <<home, fetchCalls, dataDir, now, ticks, questionEmbedding, scoredChunks, context>>

\* what the embedder did: 0, the service returned its vector; n > 0, the
\* call failed and the catch block made draw n
EmbedderAnswers == {0} \cup RandomDraws
EmbeddingFor(text, answer) ==
    IF answer = 0 THEN ServiceEmbedding(text) ELSE RandomVector(answer)

\* the assignment forgotten
WithoutEmbedding(chunk, vector) == chunk

\* lines 281 and 285: chunks[i].embedding = ...
WithEmbedding(chunk, vector) ==
    [text |-> chunk.text, source |-> chunk.source, embedding |-> vector]

\* the loop of line 274 left after its first round
FirstChunk(a, i) == i = 1

\* line 274: the loop ends after the last chunk
LastChunk(a, i) == i = Len(heap[a])

\* lines 276-286 for chunk i: the embedder answered or failed; after the
\* last chunk lines 303-308 run
ChunkEmbedded(r) ==
    /\ pc[r] = "chunkEmbed"
    /\ LET a == chunks[r]
           i == index[r]
       IN  \E answer \in EmbedderAnswers :
             LET contents == [heap[a] EXCEPT ![i] =
                                 WithEmbedding(@, EmbeddingFor(@.text, answer))]
             IN  /\ heap' = [heap EXCEPT ![a] = contents]
                 /\ Log(r, <<Event("embed", i, answer = 0)>>)
                 /\ IF LastChunk(a, i)
                    THEN /\ StoreSnapshot(a, contents)
                         /\ pc' = [pc EXCEPT ![r] = "questionEmbed"]
                         /\ UNCHANGED index
                    ELSE /\ index' = [index EXCEPT ![r] = i + 1]
                         /\ UNCHANGED <<cachedData, stored, pc>>
    /\ UNCHANGED <<home, fetchCalls, dataDir, now, ticks, question, chunks, questionEmbedding,
                   scoredChunks, context, response, cacheTest, abandoned, loaded>>

\* sort applied to the array of the snapshot itself
SortedInPlace(chunkArray, sorted) ==
    [i \in 1..Len(sorted) |-> WithEmbedding(sorted[i], sorted[i].embedding)]

\* line 341: map builds a new array of new objects, so the sort of line 345
\* leaves the array of the snapshot as it is
ChunksAfterRanking(chunkArray, sorted) == chunkArray

\* lines 328-351: the question's embedding arrives or is replaced, the
\* chunks are scored, sorted and cut, the context is built and the chat
\* completion is requested
QuestionEmbedded(r) ==
    /\ pc[r] = "questionEmbed"
    /\ \E answer \in EmbedderAnswers :
         LET q == EmbeddingFor(question[r].str, answer)
         IN  /\ questionEmbedding' = [questionEmbedding EXCEPT ![r] = q]
             /\ Log(r, <<Event("embed", 0, answer = 0)>>)
             /\ \E sorted \in SortOutcomes(Scored(heap[chunks[r]], q)) :
                   /\ heap' = [heap EXCEPT ![chunks[r]] = ChunksAfterRanking(@, sorted)]
                   /\ scoredChunks' = [scoredChunks EXCEPT ![r] = slice(sorted, TopK)]
                   /\ context' = [context EXCEPT ![r] = BuildContext(slice(sorted, TopK))]
    /\ pc' = [pc EXCEPT ![r] = "chat"]
    /\ UNCHANGED <<home, fetchCalls, dataDir, now, ticks, cachedData, question, chunks, index,
                   response, cacheTest, abandoned, loaded, stored>>

\* lines 354-389: the completion arrived
Answer == "answer"
ChatAnswered(r) ==
    /\ pc[r] = "chat"
    /\ Log(r, <<Event("chat", 0, TRUE)>>)
    /\ Respond(r, Success(Answer, scoredChunks[r]))
    /\ UNCHANGED <<home, fetchCalls, dataDir, now, ticks, cachedData, heap, question, chunks, index,
                   questionEmbedding, scoredChunks, context, cacheTest,
                   abandoned, loaded, stored>>

\* an answer made up from nothing after the completion failed
FallbackAnswer(r) == Success("", scoredChunks[r])

\* lines 391-396: what the catch block answers when line 354 throws
ChatFailureResponse(r) == ServerError("APIError")

ChatFailed(r) ==
    /\ pc[r] = "chat"
    /\ Log(r, <<Event("chat", 0, FALSE)>>)
    /\ Respond(r, ChatFailureResponse(r))
    /\ UNCHANGED <<home, fetchCalls, dataDir, now, ticks, cachedData, heap, question, chunks, index,
                   questionEmbedding, scoredChunks, context, cacheTest,
                   abandoned, loaded, stored>>

\* the clock advances by half the freshness window or by all of it
Tick ==
    /\ ticks < MaxTicks
    /\ ticks' = ticks + 1
    /\ \E d \in {FreshnessWindow \div 2, FreshnessWindow} : now' = now + d
    /\ UNCHANGED <<home, fetchCalls, dataDir, cachedData, heap, pc, question, chunks, index,
                   questionEmbedding, scoredChunks, context, response, io,
                   cacheTest, abandoned, loaded, stored>>

Next ==
    \/ \E r \in Requests : PostBadBody(r)
    \/ \E r \in Requests : PostInvalid(r)
    \/ \E r \in Requests : PostValid(r)
    \/ \E r \in Requests : ChunkEmbedded(r)
    \/ \E r \in Requests : QuestionEmbedded(r)
    \/ \E r \in Requests : ChatAnswered(r)
    \/ \E r \in Requests : ChatFailed(r)
    \/ Tick

Spec == Init /\ [][Next]_vars

(***************************************************************************)
(* The chunker on its own: the data directory holds one document of up to  *)
(* MaxLines lines, each empty, blank, short, or of a length about the      *)
(* maximum chunk size, and requests run up to the return of                *)
(* loadAndChunkFiles.                                                      *)
(***************************************************************************)
DocLines ==
    { <<>>, <<" ">>, <<" ", "a", "b">>, Rep("x", MaxChunkSize \div 2),
      Rep("y", MaxChunkSize - 1), Rep("z", MaxChunkSize + 1) }

Documents ==
    UNION {{join(l, <<NL>>) : l \in [1..n -> DocLines]} : n \in 0..MaxLines}

ChunkerCorpora == {<<[name |-> FileA, content |-> d]>> : d \in Documents}

ChunkerInit == dataDir \in ChunkerCorpora /\ ServerStarted

ChunkerNext == \E r \in Requests : PostValid(r)

ChunkerSpec == ChunkerInit /\ [][ChunkerNext]_vars

(***************************************************************************)
(* Ranking against a cached snapshot: an earlier request has rebuilt the   *)
(* snapshot at time 0, each chunk embedded by the service or by the        *)
(* fallback, and the requests that follow are served from it.  For the     *)
(* ranking the corpus has four chunks, two of them from the same file, and *)
(* requests run up to the call of the chat completion; for the citations   *)
(* it has two or three chunks and requests run to their response.          *)
(***************************************************************************)
FileD == <<"d", ".", "t", "x", "t">>

DocA == [name |-> FileA, content |-> Rep("x", MaxChunkSize) \o <<NL, "a", "b", "c">>]
DocB == [name |-> FileB, content |-> <<"h", "i">>]
DocD == [name |-> FileD, content |-> <<"h", "e", "l", "l", "o">>]

RankCorpora == {<<>>, <<DocA, DocB, DocD>>}
CiteCorpora == {<<DocA>>, <<DocA, DocB>>}

\* the arrays generateEmbeddings can make of the chunks of the files
EmbeddedArrays(fromFiles) ==
    {[i \in 1..Len(fromFiles) |->
         WithEmbedding(fromFiles[i], EmbeddingFor(fromFiles[i].text, answers[i]))] :
       answers \in [1..Len(fromFiles) -> EmbedderAnswers]}

\* a snapshot of one of the corpora is cached and no request has arrived
SnapshotCached(corpora) ==
    /\ PageLoaded
    /\ dataDir \in corpora
    /\ now = 0
    /\ ticks = 0
    /\ heap \in {<<a>> : a \in EmbeddedArrays(loadAndChunkFiles(dataDir))}
    /\ cachedData = Snapshot(1, 0)
    /\ loaded = <<loadAndChunkFiles(dataDir)>>
    /\ stored = {[array |-> 1, chunks |-> heap[1], timestamp |-> 0]}
    /\ pc = [r \in Requests |-> "idle"]
    /\ question = [r \in Requests |-> Undefined]
    /\ chunks = [r \in Requests |-> 0]
    /\ index = [r \in Requests |-> 0]
    /\ questionEmbedding = [r \in Requests |-> NoVector]
    /\ scoredChunks = [r \in Requests |-> <<>>]
    /\ context = [r \in Requests |-> <<>>]
    /\ response = [r \in Requests |-> NoResponse]
    /\ io = [r \in Requests |-> <<>>]
    /\ cacheTest = [r \in Requests |-> NotTested]
    /\ abandoned = {}

RankInit == SnapshotCached(RankCorpora)

RankNext ==
    \/ \E r \in Requests : PostValid(r)
    \/ \E r \in Requests : QuestionEmbedded(r)

RankSpec == RankInit /\ [][RankNext]_vars

CiteInit == SnapshotCached(CiteCorpora)

CiteNext ==
    \/ \E r \in Requests : PostValid(r)
    \/ \E r \in Requests : QuestionEmbedded(r)
    \/ \E r \in Requests : ChatAnswered(r)

CiteSpec == CiteInit /\ [][CiteNext]_vars

(***************************************************************************)
(* The page, src/app/page.tsx: the component Home with its form.  The      *)
(* state updates a handler makes before it suspends are rendered together, *)
(* so handleSubmit runs in one step up to its await of fetch and in one    *)
(* step after it.  The endpoint is seen from outside: a fetch resolves     *)
(* with a 2xx response and its body, resolves with another status, or      *)
(* rejects, or the body cannot be parsed.                                  *)
(***************************************************************************)
ServerVars == <<dataDir, now, ticks, cachedData, heap, pc, question, chunks, index,
                questionEmbedding, scoredChunks, context, response, io, cacheTest,
                abandoned, loaded, stored>>

\* what the user can have typed into the textarea
PageTexts == {<<>>, <<" ">>, <<" ", NL>>, <<"q", "?">>, <<" ", "q", " ">>}

\* the body of a 2xx response of the endpoint
ApiData == [status |-> 200, answer |-> Answer, citations |-> <<>>, sources |-> <<>>]

BlankError == "Por favor escribe una pregunta"
FetchError == "Ocurrio un error. Por favor intenta de nuevo."

\* the form left usable while a question is under way
NeverDisabled == FALSE

\* lines 83 and 89: disabled={loading} on the textarea and the submit button
Disabled == home.loading

\* line 79: onChange
SetQuestion(text) ==
    /\ ~Disabled
    /\ home' = [home EXCEPT !.question = text]
    /\ UNCHANGED <<fetchCalls, ServerVars>>

\* lines 24-29: the form is submitted with a blank question
SubmitBlank ==
    /\ ~Disabled
    /\ trim(home.question) = <<>>
    /\ home' = [home EXCEPT !.error = BlankError]
    /\ UNCHANGED <<fetchCalls, ServerVars>>

\* lines 24-40: the form is submitted with a question; handleSubmit runs up
\* to its await of fetch
SubmitQuestion ==
    /\ ~Disabled
    /\ trim(home.question) # <<>>
    /\ Len(fetchCalls) < MaxSubmits
    /\ home' = [home EXCEPT !.loading = TRUE, !.error = "", !.response = NoData]
    /\ fetchCalls' = Append(fetchCalls, [body |-> home.question, outcome |-> "pending"])
    /\ UNCHANGED ServerVars

Pending == {k \in 1..Len(fetchCalls) : fetchCalls[k].outcome = "pending"}

\* lines 42-47 and 51-53: the response is ok and its body parsed
FetchOk ==
    /\ \E k \in Pending : fetchCalls' = [fetchCalls EXCEPT ![k].outcome = "ok"]
    /\ home' = [home EXCEPT !.response = ApiData, !.loading = FALSE]
    /\ UNCHANGED ServerVars

\* lines 42-44 and 48-53: the response is not ok, fetch rejected, or the
\* body of an ok response did not parse
FetchFails ==
    /\ \E k \in Pending : \E outcome \in {"notOk", "rejected", "badJson"} :
          fetchCalls' = [fetchCalls EXCEPT ![k].outcome = outcome]
    /\ home' = [home EXCEPT !.error = FetchError, !.loading = FALSE]
    /\ UNCHANGED ServerVars

PageInit == dataDir = <<>> /\ ServerStarted

PageNext ==
    \/ \E text \in PageTexts : SetQuestion(text)
    \/ SubmitBlank
    \/ SubmitQuestion
    \/ FetchOk
    \/ FetchFails

\* a fetch that was made is settled in the end
PageSpec == PageInit /\ [][PageNext]_vars /\ WF_vars(FetchOk \/ FetchFails)

(***************************************************************************)
(* Properties.                                                             *)
(***************************************************************************)
HasEmbedding(chunk) == "embedding" \in DOMAIN chunk
Bare(chunk) == [text |-> chunk.text, source |-> chunk.source]

\* getEmbeddings has returned to request r
Returned(r) == pc[r] \in {"questionEmbed", "chat", "done"} /\ chunks[r] # 0

Range(f) == {f[i] : i \in DOMAIN f}

\* the arguments of the calls of a request to the file system (0 is
\* readdirSync) and to the embedder for its chunks, in the order made
Args(events) == [i \in 1..Len(events) |-> events[i].arg]
FileCalls(r) ==
    Args(SelectSeq(io[r], LAMBDA e : e.api \in {"readdir", "readFile"}))
ChunkEmbedCalls(r) ==
    Args(SelectSeq(io[r], LAMBDA e : e.api = "embed" /\ e.arg > 0))

\* C1 (cache freshness).  A getEmbeddings call that finds a snapshot
\* younger than 3,600,000 ms returns that snapshot's array, reads no file
\* and calls the embedder for no chunk; a call that finds no snapshot or
\* one of age 3,600,000 ms or more lists the directory and, once it has
\* read and embedded everything, has each file read once, each chunk
\* embedded once, and its array stored in exactly one snapshot; every
\* assignment to cachedData is made by a rebuild that just finished and
\* carries the time of the assignment.
C1_Request(r) ==
    LET t == cacheTest[r]
    IN  t.tested =>
          IF t.set /\ t.age < 3600000
          THEN /\ t.hit
               /\ chunks[r] = t.array
               /\ FileCalls(r) = <<>>
               /\ ChunkEmbedCalls(r) = <<>>
          ELSE /\ ~t.hit
               /\ Len(FileCalls(r)) >= 1
               /\ Returned(r) =>
                    /\ FileCalls(r) =
                          <<0>> \o [k \in 1..Len(TextFiles(dataDir)) |-> k]
                    /\ ChunkEmbedCalls(r) = [i \in 1..Len(heap[chunks[r]]) |-> i]
                    /\ ~(t.set /\ chunks[r] = t.array)
                    /\ Cardinality({s \in stored : s.array = chunks[r]}) = 1

C1_Step ==
    /\ \A r \in Requests : C1_Request(r)'
    /\ cachedData' # cachedData =>
          /\ cachedData'.set
          /\ cachedData'.timestamp = now'
          /\ \E r \in Requests :
                /\ pc[r] \in {"idle", "chunkEmbed"}
                /\ pc'[r] = "questionEmbed"
                /\ ~cacheTest'[r].hit
                /\ cachedData'.chunks = chunks'[r]

\* C1: every step keeps the cache-freshness rule: a fresh snapshot is
\* served without a rebuild, an absent or expired one is rebuilt once and
\* stored with the time of the store.
C1_CacheFreshness == [][C1_Step]_vars

\* a request found a snapshot whose window had elapsed, rebuilt and answered
C1_Witness ==
    \E r \in Requests :
        /\ cacheTest[r].tested /\ cacheTest[r].set
        /\ cacheTest[r].age >= FreshnessWindow
        /\ pc[r] = "done" /\ response[r].status = 200
        /\ cachedData.chunks = chunks[r]
        /\ cachedData.timestamp = FreshnessWindow
        /\ Len(heap[chunks[r]]) > 1

\* a request was served from a snapshot of positive age
C1_WitnessHit ==
    \E r \in Requests :
        /\ cacheTest[r].hit /\ cacheTest[r].age > 0
        /\ pc[r] = "done" /\ response[r].status = 200

\* C2 (atomic snapshot replacement).  The array cachedData refers to, every
\* snapshot ever stored and every array getEmbeddings has returned to a
\* request hold the complete chunk list of one rebuild of the data
\* directory, each chunk with its embedding.
CompleteRebuild(a, contents) ==
    /\ a \notin abandoned
    /\ \A i \in 1..Len(contents) : HasEmbedding(contents[i])
    /\ [i \in 1..Len(contents) |-> Bare(contents[i])] = loaded[a]

\* C2: in every state the cache, the stored snapshots and the arrays handed
\* to requests are complete rebuilds.
C2_AtomicSnapshot ==
    /\ cachedData.set => CompleteRebuild(cachedData.chunks, heap[cachedData.chunks])
    /\ \A s \in stored : CompleteRebuild(s.array, s.chunks)
    /\ \A r \in Requests : Returned(r) => CompleteRebuild(chunks[r], heap[chunks[r]])

\* a rebuild has stored and returned its array while the racing rebuild of
\* another request is half way through embedding its own
C2_Witness ==
    \E r1, r2 \in Requests :
        /\ pc[r1] = "chunkEmbed" /\ index[r1] > 1
        /\ Returned(r2) /\ chunks[r2] # chunks[r1]
        /\ cachedData.set /\ cachedData.chunks = chunks[r2]


\* C3 (racing rebuilds).  When two requests both found the same snapshot
\* absent or expired and both rebuilt, their two arrays hold the same
\* chunks in the same order with the same embeddings, and so do the
\* snapshots stored for them.
Racing(r1, r2) ==
    /\ r1 # r2
    /\ cacheTest[r1].tested /\ ~cacheTest[r1].hit /\ Returned(r1)
    /\ cacheTest[r2].tested /\ ~cacheTest[r2].hit /\ Returned(r2)
    /\ cacheTest[r1].set = cacheTest[r2].set
    /\ cacheTest[r1].array = cacheTest[r2].array

\* C3: two rebuilds racing over the same files end with equal chunk arrays
\* and equal stored snapshots, embeddings included.
C3_RacingRebuildsEquivalent ==
    \A r1, r2 \in Requests :
        Racing(r1, r2) =>
            /\ heap[chunks[r1]] = heap[chunks[r2]]
            /\ \A s1, s2 \in stored :
                  (s1.array = chunks[r1] /\ s2.array = chunks[r2])
                      => s1.chunks = s2.chunks

\* C4 (input validation precedes retrieval).  A request whose body parsed
\* and whose question is missing, empty or no string ends at once with
\* status 400, having made no call but req.json(), without the cache test
\* and without a chunk array; the step changes neither cachedData nor any
\* array nor the stored snapshots.
BadQuestion(q) == q.type = "undefined" \/ q.type # "string" \/ q.str = <<>>

C4_Step ==
    \A r \in Requests :
        (pc[r] = "idle" /\ pc'[r] # "idle" /\ io'[r][1].ok /\ BadQuestion(question'[r]))
            => /\ pc'[r] = "done"
               /\ response'[r].status = 400
               /\ io'[r] = <<Event("json", 0, TRUE)>>
               /\ ~cacheTest'[r].tested
               /\ chunks'[r] = 0
               /\ UNCHANGED <<cachedData, heap, stored>>

\* C4: every step that refuses a question answers 400 before any retrieval.
C4_ValidationFirst == [][C4_Step]_vars

\* an empty question was refused while a snapshot was stored
C4_Witness ==
    \E r \in Requests :
        /\ pc[r] = "done" /\ response[r].status = 400
        /\ question[r] = StringValue(<<>>)
        /\ cachedData.set /\ Len(heap[cachedData.chunks]) > 0

\* C5 (embedding-failure isolation).  The return of an embedder call for
\* chunk i, failed or not, gives chunk i an embedding, leaves its text and
\* source and every other chunk as they were and leaves the request
\* running; when getEmbeddings has returned every chunk has an embedding
\* and a rebuild has called the embedder once per chunk, in order; a
\* request that ends with an error has a failed call that is no embedder
\* call.
Last(seq) == seq[Len(seq)]

C5_Step ==
    \A r \in Requests :
        /\ (pc[r] = "chunkEmbed" /\ io'[r] # io[r]) =>
              LET a == chunks[r]
                  i == index[r]
              IN  /\ Last(io'[r]).api = "embed" /\ Last(io'[r]).arg = i
                  /\ Len(heap'[a]) = Len(heap[a])
                  /\ \A j \in 1..Len(heap[a]) : j # i => heap'[a][j] = heap[a][j]
                  /\ Bare(heap'[a][i]) = Bare(heap[a][i])
                  /\ HasEmbedding(heap'[a][i])
                  /\ pc'[r] \in {"chunkEmbed", "questionEmbed"}
        /\ (pc[r] = "questionEmbed" /\ io'[r] # io[r]) => pc'[r] = "chat"
        /\ Returned(r)' =>
              /\ \A j \in 1..Len(heap'[chunks'[r]]) : HasEmbedding(heap'[chunks'[r]][j])
              /\ ~cacheTest'[r].hit =>
                    ChunkEmbedCalls(r)' = [j \in 1..Len(heap'[chunks'[r]]) |-> j]
        /\ (pc'[r] = "done" /\ response'[r].status = 500) =>
              \E k \in 1..Len(io'[r]) : ~io'[r][k].ok /\ io'[r][k].api # "embed"

\* C5: every step keeps embedder failures local to the one chunk or to the
\* question and never turns one into an error response.
C5_EmbeddingFailureIsolation == [][C5_Step]_vars

\* every embedder call of a rebuild of two chunks and the call for the
\* question failed, and the request was answered
C5_Witness ==
    \E r \in Requests :
        /\ pc[r] = "done" /\ response[r].status = 200
        /\ Len(ChunkEmbedCalls(r)) = 2
        /\ \A k \in 1..Len(io[r]) : io[r][k].api = "embed" => ~io[r][k].ok
        /\ Len(response[r].citations) = 2

\* C6 (generation failure is fatal).  When the chat completion fails the
\* request ends with status 500, a message and the cause, and no answer,
\* citations or sources; the step changes neither cachedData nor any array
\* nor the stored snapshots.
C6_Step ==
    \A r \in Requests :
        (pc[r] = "chat" /\ pc'[r] = "done" /\ ~Last(io'[r]).ok)
            => /\ response'[r].status = 500
               /\ DOMAIN response'[r] = {"status", "error", "details"}
               /\ response'[r].details = "APIError"
               /\ UNCHANGED <<cachedData, heap, stored>>

\* C6: every step in which the chat completion fails ends the request with
\* status 500, a message and the cause.
C6_GenerationFailureFatal == [][C6_Step]_vars

\* the completion failed for the request whose rebuild is the stored snapshot
C6_Witness ==
    \E r \in Requests :
        /\ pc[r] = "done" /\ response[r].status = 500
        /\ Last(io[r]) = Event("chat", 0, FALSE)
        /\ cachedData.set /\ cachedData.chunks = chunks[r]
        /\ Len(scoredChunks[r]) = 2

\* C7 (source read failure).  When readdirSync or a readFileSync fails the
\* request ends in the same step with status 500 and no answer, holding no
\* chunk array, and cachedData and the stored snapshots stay as they were;
\* no array of a failed rebuild is ever cached, stored or handed to a
\* request; and after a failed read a request that finds no fresh snapshot
\* reads the directory again.
ReadFailed(r) ==
    \E k \in 1..Len(io[r]) : io[r][k].api \in {"readdir", "readFile"} /\ ~io[r][k].ok

C7_Step ==
    /\ \A r \in Requests :
          /\ (pc[r] = "idle" /\ ReadFailed(r)') =>
                /\ pc'[r] = "done"
                /\ response'[r].status = 500
                /\ DOMAIN response'[r] = {"status", "error", "details"}
                /\ chunks'[r] = 0
                /\ UNCHANGED <<cachedData, stored>>
          /\ (/\ ~cacheTest[r].tested /\ cacheTest'[r].tested
              /\ ~(cacheTest'[r].set /\ cacheTest'[r].age < FreshnessWindow)
              /\ \E p \in Requests : ReadFailed(p)) =>
                Len(FileCalls(r)') >= 1
    /\ abandoned' \cap ({cachedData'.chunks} \cup Range(chunks')
                          \cup {s.array : s \in stored'}) = {}

\* C7: every step in which a file-system read fails ends the request with
\* status 500 and leaves the cache as it was.
C7_ReadFailureFailsRebuild == [][C7_Step]_vars

\* a rebuild failed at its second file, after the first was chunked; the
\* next request rebuilt and was answered
C7_Witness ==
    \E r1, r2 \in Requests :
        /\ r1 < r2
        /\ ReadFailed(r1) /\ response[r1].status = 500
        /\ \E a \in abandoned : Len(heap[a]) >= 1
        /\ ~cacheTest[r2].hit /\ pc[r2] = "done" /\ response[r2].status = 200
        /\ cachedData.chunks = chunks[r2]

\* C8 (old snapshots are never mutated).  The array of every snapshot ever
\* stored holds what it held when the snapshot was stored.
C8_SnapshotsImmutable ==
    \A s \in stored : heap[s.array] = s.chunks

\* a request is still working on the array of a snapshot that a racing
\* rebuild has replaced in the cache
C8_Witness ==
    \E r1, r2 \in Requests :
        /\ Returned(r1) /\ pc[r1] = "chat" /\ Len(scoredChunks[r1]) = 2
        /\ scoredChunks[r1][1].text # heap[chunks[r1]][1].text
        /\ cachedData.chunks = chunks[r2] /\ chunks[r2] # chunks[r1]
        /\ \E s \in stored : s.array = chunks[r1]

\* C9 (context carries no provenance).  The context of a request is its
\* ranked chunks' texts, in ranked order, with two newlines between one
\* text and the next and nothing else.
RECURSIVE Offset(_, _)
Offset(sc, i) == IF i = 1 THEN 0 ELSE Offset(sc, i - 1) + Len(sc[i - 1].text) + 2

\* C9: in every state the context is exactly the ranked texts joined by
\* two newlines, with no label, index or file name.
C9_ContextIsRawText ==
    \A r \in Requests :
        LET sc == scoredChunks[r]
            n == Len(sc)
        IN  /\ Len(context[r]) =
                  IF n = 0 THEN 0 ELSE Offset(sc, n) + Len(sc[n].text)
            /\ \A i \in 1..n :
                  /\ SubSeq(context[r], Offset(sc, i) + 1,
                            Offset(sc, i) + Len(sc[i].text)) = sc[i].text
                  /\ i < n =>
                        SubSeq(context[r], Offset(sc, i) + Len(sc[i].text) + 1,
                               Offset(sc, i + 1)) = <<NL, NL>>
                  /\ \E j \in 1..Len(heap[chunks[r]]) :
                        sc[i].text = heap[chunks[r]][j].text

\* the completion is requested with a context of two chunks
C9_Witness ==
    \E r \in Requests :
        /\ pc[r] = "chat"
        /\ Len(scoredChunks[r]) = 2
        /\ Len(context[r]) > PreviewLength

\* C10 (citation excerpt).  In an answer, the text of the citation of a
\* ranked chunk is the chunk's text when that has at most 200 characters
\* and its first 200 characters and "..." when it has more.
C10_ExcerptTruncation ==
    \A r \in Requests :
        response[r].status = 200 =>
            \A i \in 1..Len(scoredChunks[r]) :
                response[r].citations[i].text =
                    IF Len(scoredChunks[r][i].text) <= 200
                    THEN scoredChunks[r][i].text
                    ELSE SubSeq(scoredChunks[r][i].text, 1, 200) \o <<".", ".", ".">>

\* the lines of the texts of the first n chunks, in order
RECURSIVE LinesOf(_, _)
LinesOf(chunkArray, n) ==
    IF n = 0 THEN <<>> ELSE LinesOf(chunkArray, n - 1) \o split(chunkArray[n].text)

\* lines without the white space around them, the blank ones left out
Norm(lines) ==
    SelectSeq([i \in 1..Len(lines) |-> trim(lines[i])], LAMBDA l : l # <<>>)

\* the arrays loadAndChunkFiles returned (those of a failed read left out)
Loads == {a \in 1..Len(loaded) : a \notin abandoned}

\* C13 (chunk size bound).  Every chunk loadAndChunkFiles produced has at
\* most 800 characters, or is one single line of more than 800.
C13_ChunkSizeBound ==
    \A a \in Loads : \A i \in 1..Len(loaded[a]) :
        LET t == loaded[a][i].text
        IN  Len(t) <= 800 \/ \A k \in 1..Len(t) : t[k] # NL

\* C14 (chunking is lossless and ordered).  The chunks of a document are
\* trimmed and not empty, carry the document's name, and their lines, in
\* order, are the document's lines, in order, up to white space around a
\* line and blank lines; a document of white space only gives no chunk.
C14_ChunkingLossless ==
    \A a \in Loads :
        LET doc == dataDir[1]
            n == Len(loaded[a])
        IN  /\ \A i \in 1..n :
                  /\ loaded[a][i].text # <<>>
                  /\ trim(loaded[a][i].text) = loaded[a][i].text
                  /\ loaded[a][i].source = doc.name
            /\ Norm(LinesOf(loaded[a], n)) = Norm(split(doc.content))
            /\ trim(doc.content) = <<>> => n = 0

\* a document of three lines that are not blank came out as two chunks,
\* and another line of it was blank
C14_Witness ==
    \E a \in Loads :
        /\ Len(loaded[a]) = 2
        /\ Len(Norm(split(dataDir[1].content))) = 2
        /\ Len(split(dataDir[1].content)) = 3
        /\ Len(loaded[a][2].text) < Len(split(dataDir[1].content)[3])

\* the place of the first ranked chunk of a source
FirstRanked(sc, source) ==
    CHOOSE i \in 1..Len(sc) :
        sc[i].source = source /\ \A j \in 1..(i - 1) : sc[j].source # source

\* C11 (citations and sources).  In a response of status 200 the citations
\* are as many as the ranked chunks, the i-th with the source and the score
\* of the i-th ranked chunk; sources holds each source of a ranked chunk
\* once and nothing else, in the order in which the sources first appear
\* in the ranking.
C11_CitationsParallel ==
    \A r \in Requests :
        response[r].status = 200 =>
            LET sc == scoredChunks[r]
                cs == response[r].citations
                ss == response[r].sources
            IN  /\ Len(cs) = Len(sc)
                /\ \A i \in 1..Len(sc) :
                      /\ cs[i].source = sc[i].source
                      /\ cs[i].relevance = sc[i].score
                /\ Range(ss) = {sc[i].source : i \in 1..Len(sc)}
                /\ \A i, j \in 1..Len(ss) :
                      i < j => FirstRanked(sc, ss[i]) < FirstRanked(sc, ss[j])

\* an answer cites three chunks, the first and the third from the same file
C11_Witness ==
    \E r \in Requests :
        /\ response[r].status = 200
        /\ Len(response[r].citations) = 3
        /\ response[r].citations[1].source = response[r].citations[3].source
        /\ response[r].citations[1].source # response[r].citations[2].source
        /\ Len(response[r].sources) = 2

\* C12 (empty corpus).  When loadAndChunkFiles found no chunk, the array
\* returned to the request is empty and is stored as a snapshot of zero
\* chunks; the ranking and the context are empty; the request ends only
\* after the chat completion was called, and when that call succeeded the
\* response has status 200, the answer, no citations and no sources.
C12_EmptyCorpus ==
    \A r \in Requests :
        (Returned(r) /\ loaded[chunks[r]] = <<>>) =>
            /\ heap[chunks[r]] = <<>>
            /\ \E s \in stored : s.array = chunks[r] /\ s.chunks = <<>>
            /\ pc[r] \in {"chat", "done"} =>
                  scoredChunks[r] = <<>> /\ context[r] = <<>>
            /\ pc[r] = "done" =>
                  /\ Last(io[r]).api = "chat"
                  /\ Last(io[r]).ok =>
                        response[r] = [status |-> 200, answer |-> Answer,
                                       citations |-> <<>>, sources |-> <<>>]

\* a request rebuilt over an empty data directory and was answered
C12_Witness ==
    \E r \in Requests :
        /\ dataDir = <<>>
        /\ cacheTest[r].tested /\ ~cacheTest[r].hit
        /\ pc[r] = "done" /\ response[r].status = 200
        /\ response[r].citations = <<>>
        /\ cachedData.set /\ heap[cachedData.chunks] = <<>>

\* x < y for two scores, false when one of them is NaN
Lower(x, y) == ~x.nan /\ ~y.nan /\ ScoreLess(x, y)

\* request r has ranked
Ranked(r) == pc[r] \in {"chat", "done"} /\ chunks[r] # 0

\* what the ranking of request r must be, given the array it ranked and the
\* embedding of its question
RankedRight(r) ==
    LET full == Scored(heap[chunks[r]], questionEmbedding[r])
        sc == scoredChunks[r]
        n == Len(full)
        At(i) == CHOOSE k \in 1..n : full[k] = sc[i]
    IN  /\ Len(sc) = IF n < 3 THEN n ELSE 3
        /\ \A i \in 1..Len(sc) : \E k \in 1..n : full[k] = sc[i]
        /\ \A i, j \in 1..Len(sc) :
              i < j => /\ At(i) # At(j)
                       /\ ~Lower(sc[i].score, sc[j].score)
                       /\ ~Lower(sc[j].score, sc[i].score) => At(i) < At(j)
        /\ \A i \in 1..Len(sc) : \A k \in 1..n :
              (\A j \in 1..Len(sc) : At(j) # k) =>
                  /\ ~Lower(sc[i].score, full[k].score)
                  /\ ~Lower(full[k].score, sc[i].score) => At(i) < k

\* C15 (ranking).  The ranked chunks of a request are min(3, n) of the n
\* chunks it ranked, each with its score, in descending order of score,
\* none of the chunks left out scoring higher than one taken, and chunks of
\* equal score in the order of the corpus; two requests that ranked equal
\* arrays with equal question embeddings, where the order of the sort is
\* specified, have the same ranked chunks.
C15_Ranking ==
    /\ \A r \in Requests : Ranked(r) => RankedRight(r)
    /\ \A r1, r2 \in Requests :
          (/\ Ranked(r1) /\ Ranked(r2)
           /\ heap[chunks[r1]] = heap[chunks[r2]]
           /\ questionEmbedding[r1] = questionEmbedding[r2]
           /\ ConsistentComparator(Scored(heap[chunks[r1]], questionEmbedding[r1])))
              => scoredChunks[r1] = scoredChunks[r2]

\* every number of the embedding array is 0
ZeroNorm(v) == LET e == Elements(v) IN \A i \in 1..Len(e) : e[i] = 0

\* C16 (degenerate similarity).  The score of a chunk whose embedding, or
\* whose question's embedding, has norm zero is a number, and so is every
\* score the ranking sorted and every relevance of a citation.
C16_DegenerateSimilarity ==
    \A r \in Requests :
        Ranked(r) =>
            LET full == Scored(heap[chunks[r]], questionEmbedding[r])
            IN  /\ \A k \in 1..Len(full) :
                      (ZeroNorm(questionEmbedding[r]) \/ ZeroNorm(full[k].embedding))
                          => ~full[k].score.nan
                /\ \A k \in 1..Len(full) : ~full[k].score.nan
                /\ \A i \in 1..Len(scoredChunks[r]) :
                      ~CitationOf(scoredChunks[r][i]).relevance.nan

\* the length of an embedding array
Dim(v) == Len(Elements(v))

\* C17 (uniform vector length).  The embeddings of the chunks of a stored
\* snapshot all have one length, and a question embedding is compared only
\* with chunk embeddings of its own length.
C17_UniformVectorLength ==
    /\ \A s \in stored : \A i, j \in 1..Len(s.chunks) :
          Dim(s.chunks[i].embedding) = Dim(s.chunks[j].embedding)
    /\ \A r \in Requests :
          Ranked(r) => \A i \in 1..Len(heap[chunks[r]]) :
              Dim(heap[chunks[r]][i].embedding) = Dim(questionEmbedding[r])

\* which of the embedder calls of request r succeeded, in the order made
EmbedOutcomes(r) ==
    LET calls == SelectSeq(io[r], LAMBDA e : e.api = "embed")
    IN  [i \in 1..Len(calls) |-> [arg |-> calls[i].arg, ok |-> calls[i].ok]]

\* C18 (deterministic fallback).  A fallback embedding has length 768, and
\* two requests that rebuilt over the same files with the same question,
\* and had the same embedder calls fail, hold the same embeddings, the same
\* question embedding, and the same scores and ranking.
C18_DeterministicFallback ==
    /\ \A a \in 1..Len(heap) : \A i \in 1..Len(heap[a]) :
          (HasEmbedding(heap[a][i]) /\ heap[a][i].embedding.fallback)
              => Dim(heap[a][i].embedding) = 768
    /\ \A r1, r2 \in Requests :
          (/\ Ranked(r1) /\ Ranked(r2)
           /\ ~cacheTest[r1].hit /\ ~cacheTest[r2].hit
           /\ question[r1] = question[r2]
           /\ EmbedOutcomes(r1) = EmbedOutcomes(r2))
              => /\ heap[chunks[r1]] = heap[chunks[r2]]
                 /\ questionEmbedding[r1] = questionEmbedding[r2]
                 /\ scoredChunks[r1] = scoredChunks[r2]

\* the three responses of the handler
WellFormed(resp) ==
    \/ resp.status = 200 /\ DOMAIN resp = {"status", "answer", "citations", "sources"}
    \/ resp.status = 400 /\ DOMAIN resp = {"status", "error"}
    \/ resp.status = 500 /\ DOMAIN resp = {"status", "error", "details"}

\* a call of request r that throws when it fails (the embedder's calls do
\* not: they are caught where they are made)
Threw(r) ==
    \E k \in 1..Len(io[r]) : ~io[r][k].ok /\ io[r][k].api # "embed"

C19_Step ==
    \A r \in Requests :
        /\ (pc'[r] = "done") <=> (response'[r] # NoResponse)
        /\ pc'[r] = "done" => WellFormed(response'[r])
        /\ response'[r] # response[r] => response[r] = NoResponse /\ pc[r] # "done"
        /\ pc[r] = "done" => pc'[r] = "done" /\ io'[r] = io[r]
        /\ Threw(r)' => pc'[r] = "done" /\ response'[r].status = 500
        /\ (pc'[r] = "done" /\ ~Threw(r)') => response'[r].status \in {200, 400}

\* C19 (POST never throws).  Every step leaves each request either running
\* with no response or ended with one response that is 200 with answer,
\* citations and sources, 400 with an error, or 500 with an error and
\* details; a response once made is never changed and the request does
\* nothing after it; a failed body parse, file read or chat completion
\* ends the request in that step with 500, and a request that ends without
\* such a failure ends with 200 or 400.
C19_PostNeverThrows == [][C19_Step]_vars

\* one request ended with 500 on an unparsable body while the other, whose
\* embedder calls all failed, ended with 200
C19_Witness ==
    \E r1, r2 \in Requests :
        /\ response[r1] = ServerError("SyntaxError")
        /\ response[r2].status = 200
        /\ \E k \in 1..Len(io[r2]) : io[r2][k].api = "embed"
        /\ \A k \in 1..Len(io[r2]) : io[r2][k].api = "embed" => ~io[r2][k].ok

\* the rebuild of request r is completed by this step
Completes(r) ==
    /\ pc[r] \in {"idle", "chunkEmbed"}
    /\ pc'[r] = "questionEmbed"
    /\ ~cacheTest'[r].hit

C20_Step ==
    /\ cachedData.set => /\ cachedData'.set
                         /\ cachedData'.timestamp >= cachedData.timestamp
    /\ cachedData' # cachedData => \E r \in Requests : Completes(r)
    /\ \A r \in Requests :
          Completes(r) =>
              /\ cachedData' = Snapshot(chunks'[r], now')
              /\ \A i \in 1..Len(heap'[chunks'[r]]) :
                    HasEmbedding(heap'[chunks'[r]][i])

\* C20 (cachedData is monotone).  Every step leaves a set cachedData set
\* and its timestamp no smaller; cachedData changes only in a step that
\* completes a rebuild, and every step that completes a rebuild leaves
\* cachedData referring to that rebuild's array, so after racing rebuilds
\* it is the one completed last.
C20_CacheMonotone == [][C20_Step]_vars

\* two rebuilds of two chunks raced and both were stored; the one that
\* started first completed last, and the cache holds its array
C20_Witness ==
    \E r1, r2 \in Requests :
        /\ Racing(r1, r2)
        /\ Len(heap[chunks[r1]]) = 2
        /\ chunks[r1] < chunks[r2]
        /\ cachedData.chunks = chunks[r1]
        /\ \E s \in stored : s.array = chunks[r2]

\* what a step of the page may do
C21_Step ==
    /\ trim(home.question) = <<>> =>
          ~home.loading /\ ~home'.loading /\ fetchCalls' = fetchCalls
    /\ (~home.loading /\ home'.loading) =>
          /\ trim(home.question) # <<>>
          /\ home'.error = "" /\ home'.response = NoData
          /\ fetchCalls' = Append(fetchCalls, [body |-> home.question, outcome |-> "pending"])
    /\ Len(fetchCalls') > Len(fetchCalls) => ~home.loading /\ home'.loading
    /\ home'.loading <=> Cardinality(Pending') = 1
    /\ ~home'.loading => Pending' = {}
    /\ (home.loading /\ ~home'.loading) =>
          \E k \in Pending :
              /\ fetchCalls'[k].outcome # "pending"
              /\ (home'.response # NoData) <=> (fetchCalls'[k].outcome = "ok")
              /\ (home'.error # "") <=> (fetchCalls'[k].outcome # "ok")

\* C21 (the form).  A step taken with a blank question sends nothing and
\* leaves loading false; loading becomes true only together with one POST
\* of the question, with error and response cleared; no POST is sent while
\* loading is true, so at most one is under way; loading becomes false
\* only when that POST is settled, with the response set and no error
\* after a 2xx answer and the error set and no response otherwise; and
\* loading, once true, becomes false again.
C21_Form == [][C21_Step]_vars /\ (home.loading ~> ~home.loading)

\* after a question that got a response that was not ok, a second question,
\* with white space around it, was answered
C21_Witness ==
    /\ Len(fetchCalls) = 2
    /\ fetchCalls[1].outcome = "notOk"
    /\ fetchCalls[2].outcome = "ok"
    /\ fetchCalls[2].body = <<" ", "q", " ">>
    /\ ~home.loading /\ home.response = ApiData /\ home.error = ""

====
